---- MODULE Spec2Model ----
(***************************************************************************)
(* A model of the audio plugin (src/plugins/audio.py) and of the volume    *)
(* ducking of the music player (src/mcp/tools/music/music_player.py).      *)
(*                                                                         *)
(* The plugin's coroutines run on one asyncio event loop: a step of the    *)
(* model is the code a coroutine runs between two suspension points        *)
(* (await), or one blocking call of a worker / capture thread.             *)
(* Fire-and-forget send tasks are anonymous, so they are kept as counts    *)
(* per position in the code.                                               *)
(***************************************************************************)
EXTENDS Integers, FiniteSets, Sequences, TLC

\* audio.py:12
MAX_CONCURRENT_AUDIO_SENDS == 4

\* Encoded frames that are in flight at once (posted, spawned or sending).
MaxTasks == 5
\* on_device_state_changed invocations suspended in their wait at once.
MaxListeners == 2
\* shutdown invocations suspended in codec.close() at once.
MaxShutdowns == 2

DeviceState == {"IDLE", "LISTENING", "SPEAKING"}

\* music_player.py:47, TTS_DUCK_LEVEL = 0.2 on the session's 0.0 ~ 1.0 scale,
\* here in tenths.
TTS_DUCK_LEVEL == 2

\* on_incoming_json invocations that are running at once.
MaxHandlers == 2
Handlers == 1..MaxHandlers

\* Session volumes, in tenths: the duck level and two levels above it.
Volumes == {TTS_DUCK_LEVEL, 5, 8}

\* What on_incoming_json is given.
Messages == {"not_a_dict", "other_type", "tts_other_state", "tts_start", "tts_stop"}

NoEvent == [op |-> "none", ret |-> FALSE, why |-> "none"]
Passed == [op |-> "message", ret |-> FALSE, why |-> "not_tts_start_or_stop"]
NoDuck == [st |-> "none", h |-> 0, v |-> 0]
NoRow == [st |-> "no", h |-> 0]
Armed == [st |-> "armed", h |-> 0]
NoScenario == [phase |-> "none", v |-> 0, playing |-> FALSE, clean |-> FALSE]
NoRace == [st |-> "none", v |-> 0, o |-> {}, msgs |-> "none", duck |-> 0, restore |-> 0,
           clean |-> FALSE, last |-> "none"]

\* on_incoming_audio invocations suspended in codec.write_audio at once.
MaxWriters == 2
\* MusicPlayer.play invocations that are running at once.
MaxPlayers == 2
Players == 1..MaxPlayers

VARIABLES
    app,                \* self.app is set (audio.py:21, 28)
    main_loop,          \* self._main_loop is set (audio.py:23, 29)
    loop_closed,        \* the main loop's is_closed()
    codec,              \* self.codec is not None (audio.py:22)
    audio_codec,        \* app.audio_codec is not None
    encoded_callback,   \* _on_encoded_audio is registered with the codec
    setupPc,            \* position of setup(): "new", "initializing", "done"
    last_shutdown,      \* how the last shutdown call to return fared, or "none"
    closers,            \* shutdown() invocations awaiting codec.close()
    running,            \* app.running
    protocol,           \* app.protocol: "None", or its audio channel "closed"/"opened"
    capture,            \* what app.should_capture_audio() does: "allow", "deny", "raise"
    device_state,       \* the state last given to on_device_state_changed
    in_silence_period,  \* self._in_silence_period (audio.py:25)
    listeners,          \* on_device_state_changed(LISTENING) invocations in asyncio.sleep
    send_sem,           \* the value of self._send_sem (audio.py:24)
    encPc,              \* capture thread inside _on_encoded_audio: "idle", "post"
    posted,             \* _schedule_send_audio callbacks queued on the main loop
    spawnedInSilence,   \* _send tasks before their `async with`, spawned with the flag set
    spawnedClear,       \* _send tasks before their `async with`, spawned with the flag clear
    sending,            \* _send tasks suspended in protocol.send_audio
    last_send,          \* how the last frame to be dropped, or _send task to make a step, fared
    session,            \* the music app's audio session: "none", "inactive", "active"
    volume,             \* the session's master volume, in tenths
    original_volume,    \* MusicPlayer._original_volume: {} for None, {v} for v
    pc,                 \* position of each on_incoming_json invocation
    current,            \* duck_volume's local `current`, per invocation
    escaped,            \* the call whose exception left the plugin's method, or "none"
    player_event,       \* the duck_volume / restore_volume return of the last step,
                        \* or that the last step was a message of no concern
    ducked_from,        \* the volume read by the last duck_volume to store and return True
    row,                \* duck_volume calls that follow each other with nothing in between
    scenario,           \* a TTS start handled alone, then its stop
    race,               \* the calls made since the player's state was noted
    writers,            \* on_incoming_audio invocations awaiting codec.write_audio
    last_audio,         \* how the last step of an on_incoming_audio invocation fared
    playPc,             \* position of each MusicPlayer.play invocation
    last_play           \* what the last media key sent by play did to the playback

vars == <<app, main_loop, loop_closed, codec, audio_codec, encoded_callback,
          setupPc, last_shutdown, closers, running, protocol, capture, device_state,
          in_silence_period, listeners, send_sem, encPc, posted,
          spawnedInSilence, spawnedClear, sending, last_send,
          session, volume, original_volume, pc, current, escaped, player_event,
          ducked_from, row, scenario, race,
          writers, last_audio, playPc, last_play>>

lifecycleVars == <<app, main_loop, codec, audio_codec, encoded_callback, setupPc,
                   last_shutdown, closers>>
envVars == <<loop_closed, running, protocol, capture>>
silenceVars == <<device_state, in_silence_period, listeners>>
sendVars == <<send_sem, encPc, posted, spawnedInSilence, spawnedClear, sending, last_send>>
playerVars == <<session, volume, original_volume>>
handlerVars == <<pc, current, escaped>>
observerVars == <<player_event, ducked_from, row, scenario, race>>
playbackVars == <<writers, last_audio>>
playVars == <<playPc, last_play>>
ttsVars == <<playerVars, handlerVars, observerVars>>

\* AudioPlugin.__init__, before setup; the application around it is running
\* and not yet connected.
Init ==
    /\ app = FALSE
    /\ main_loop = FALSE
    /\ loop_closed = FALSE
    /\ codec = FALSE
    /\ audio_codec = FALSE
    /\ encoded_callback = FALSE
    /\ setupPc = "new"
    /\ last_shutdown = "none"
    /\ closers = 0
    /\ running = TRUE
    /\ protocol = "None"
    /\ capture = "deny"
    /\ device_state = "IDLE"
    /\ in_silence_period = FALSE
    /\ listeners = 0
    /\ send_sem = MAX_CONCURRENT_AUDIO_SENDS
    /\ encPc = "idle"
    /\ posted = 0
    /\ spawnedInSilence = 0
    /\ spawnedClear = 0
    /\ sending = 0
    /\ last_send = "none"
    /\ session = "none"
    /\ volume = TTS_DUCK_LEVEL
    /\ original_volume = {}
    /\ pc = [h \in Handlers |-> "idle"]
    /\ current = [h \in Handlers |-> 0]
    /\ escaped = "none"
    /\ player_event = NoEvent
    /\ ducked_from = NoDuck
    /\ row = NoRow
    /\ scenario = NoScenario
    /\ race = NoRace
    /\ writers = 0
    /\ last_audio = "none"
    /\ playPc = [p \in Players |-> "idle"]
    /\ last_play = "none"

----------------------------------------------------------------------------
(* The try / except blocks around the collaborators *)

\* The calls of collaborators that sit inside a try block with an
\* `except Exception`: codec.clear_audio_queue (audio.py:108-115), the
\* playback-state query (music_player.py:218-235, and audio.py:118-130
\* around the worker-thread call), the session lookup (music_player.py:
\* 245-258), GetMasterVolume and SetMasterVolume in duck_volume (266-281),
\* SetMasterVolume and the log line in restore_volume (291-300),
\* call_soon_threadsafe in _on_encoded_audio (audio.py:169-178), the codec's
\* construction, initialize() and set_encoded_callback in setup (34-45),
\* codec.close() in shutdown (151-156), codec.write_audio in
\* on_incoming_audio (97-100), protocol.send_audio in the _send task
\* (189-198).
GuardedCalls ==
    {"clear_audio_queue", "playback_state", "session_lookup",
     "duck_get", "duck_set", "restore_set", "restore_log",
     "call_soon_threadsafe", "codec_setup", "codec_close", "write_audio",
     "send_audio"}

\* A _send task with no try block around protocol.send_audio.
SwallowedButSend(call) == call \in GuardedCalls \ {"send_audio"}

\* An on_incoming_audio with no try block around codec.write_audio.
SwallowedButWrite(call) == call \in GuardedCalls \ {"write_audio"}

\* An on_incoming_json with no try block around codec.clear_audio_queue.
SwallowedButQueue(call) == call \in GuardedCalls \ {"clear_audio_queue"}

\* The exception raised by `call` is caught before it leaves the method.
Swallowed(call) == call \in GuardedCalls

\* `escaped` after a step in which `call` raised or did not.
Escapes(raised, call) == IF raised /\ ~Swallowed(call) THEN call ELSE escaped

----------------------------------------------------------------------------
(* The application around the plugin. *)

EnvRunning ==
    /\ running' = ~running
    /\ UNCHANGED <<loop_closed, protocol, capture>>
    /\ UNCHANGED <<lifecycleVars, silenceVars, sendVars, ttsVars>>
    /\ UNCHANGED <<playbackVars, playVars>>

EnvProtocol ==
    /\ \E p \in {"None", "closed", "opened"} : p # protocol /\ protocol' = p
    /\ UNCHANGED <<loop_closed, running, capture>>
    /\ UNCHANGED <<lifecycleVars, silenceVars, sendVars, ttsVars>>
    /\ UNCHANGED <<playbackVars, playVars>>

EnvCapture ==
    /\ \E c \in {"allow", "deny", "raise"} : c # capture /\ capture' = c
    /\ UNCHANGED <<loop_closed, running, protocol>>
    /\ UNCHANGED <<lifecycleVars, silenceVars, sendVars, ttsVars>>
    /\ UNCHANGED <<playbackVars, playVars>>

\* The main loop is closed: nothing scheduled on it runs any more.
EnvLoopClose ==
    /\ ~loop_closed
    /\ loop_closed' = TRUE
    /\ UNCHANGED <<running, protocol, capture>>
    /\ UNCHANGED <<lifecycleVars, silenceVars, sendVars, ttsVars>>
    /\ UNCHANGED <<playbackVars, playVars>>

----------------------------------------------------------------------------
(* setup and shutdown *)

\* A setup whose except block logs and leaves self.codec as it is.
CodecKeptAfterFailedSetup(raised) == codec

\* A setup that always ends with a codec.
CodecSetAfterSetup(raised) == TRUE

\* self.codec at the end of setup: None after an exception (audio.py:43-45).
CodecAfterSetup(raised) == IF raised THEN FALSE ELSE codec

\* setup up to `await self.codec.initialize()`.
SetupBegin ==
    /\ ~loop_closed
    /\ setupPc = "new"
    /\ app' = TRUE
    /\ main_loop' = TRUE
    /\ \E disabled \in BOOLEAN, constructed \in BOOLEAN :
        /\ IF disabled
           THEN /\ setupPc' = "done"
                /\ codec' = codec
           ELSE IF constructed
           THEN /\ setupPc' = "initializing"
                /\ codec' = TRUE
           ELSE /\ setupPc' = "done"
                /\ codec' = CodecAfterSetup(TRUE)
        /\ escaped' = Escapes(~disabled /\ ~constructed, "codec_setup")
    /\ UNCHANGED <<audio_codec, encoded_callback, last_shutdown, closers>>
    /\ UNCHANGED <<playerVars, pc, current, observerVars>>
    /\ UNCHANGED <<envVars, silenceVars, sendVars>>
    /\ UNCHANGED <<playbackVars, playVars>>

\* setup from the return of initialize() to its end: initialize() or
\* set_encoded_callback raises, also because a shutdown has set self.codec
\* to None in the meantime, or both succeed.
SetupFinish ==
    /\ ~loop_closed
    /\ setupPc = "initializing"
    /\ setupPc' = "done"
    /\ \E raised \in BOOLEAN :
        /\ IF raised \/ ~codec
           THEN /\ codec' = CodecAfterSetup(TRUE)
                /\ UNCHANGED <<audio_codec, encoded_callback>>
           ELSE /\ encoded_callback' = TRUE
                /\ audio_codec' = TRUE
                /\ codec' = CodecAfterSetup(FALSE)
        /\ escaped' = Escapes(raised \/ ~codec, "codec_setup")
    /\ UNCHANGED <<app, main_loop, last_shutdown, closers>>
    /\ UNCHANGED <<playerVars, pc, current, observerVars>>
    /\ UNCHANGED <<envVars, silenceVars, sendVars>>
    /\ UNCHANGED <<playbackVars, playVars>>

\* shutdown up to `await self.codec.close()`, or all of it without a codec.
ShutdownBegin ==
    /\ ~loop_closed
    /\ IF codec
       THEN /\ closers < MaxShutdowns
            /\ closers' = closers + 1
            /\ UNCHANGED audio_codec
            /\ UNCHANGED last_shutdown
       ELSE /\ audio_codec' = IF app THEN FALSE ELSE audio_codec
            /\ last_shutdown' = "nothing_to_close"
            /\ UNCHANGED closers
    /\ UNCHANGED <<app, main_loop, codec, encoded_callback, setupPc>>
    /\ UNCHANGED <<envVars, silenceVars, sendVars, ttsVars>>
    /\ UNCHANGED <<playbackVars, playVars>>

\* A shutdown that sets self.codec to None after close() instead of in a
\* `finally` block.
CodecKeptWhenCloseRaised(raised) == IF raised THEN codec ELSE FALSE

\* self.codec after close() returned or raised (audio.py:155-156).
CodecAfterClose(raised) == FALSE

\* shutdown from the return (or exception) of close() to its end.
ShutdownEnd ==
    /\ ~loop_closed
    /\ closers > 0
    /\ closers' = closers - 1
    /\ \E raised \in BOOLEAN :
        /\ codec' = CodecAfterClose(raised)
        /\ last_shutdown' = IF raised THEN "close_raised" ELSE "closed"
        /\ escaped' = Escapes(raised, "codec_close")
    /\ audio_codec' = IF app THEN FALSE ELSE audio_codec
    /\ UNCHANGED <<app, main_loop, encoded_callback, setupPc>>
    /\ UNCHANGED <<playerVars, pc, current, observerVars>>
    /\ UNCHANGED <<envVars, silenceVars, sendVars>>
    /\ UNCHANGED <<playbackVars, playVars>>

----------------------------------------------------------------------------
(* on_incoming_audio *)

\* on_incoming_audio up to `await self.codec.write_audio(data)`, or all of it
\* when there is no codec and the data is dropped (audio.py:96-102).
IncomingAudio ==
    /\ ~loop_closed
    /\ IF codec
       THEN /\ writers < MaxWriters
            /\ writers' = writers + 1
            /\ last_audio' = "writing"
       ELSE /\ last_audio' = "dropped"
            /\ UNCHANGED writers
    /\ UNCHANGED <<lifecycleVars, envVars, silenceVars, sendVars, ttsVars, playVars>>

\* codec.write_audio returns or raises, and on_incoming_audio returns.
WriteAudioDone ==
    /\ ~loop_closed
    /\ writers > 0
    /\ writers' = writers - 1
    /\ \E raised \in BOOLEAN :
        /\ last_audio' = IF raised THEN "write_raised" ELSE "written"
        /\ escaped' = Escapes(raised, "write_audio")
    /\ UNCHANGED <<playerVars, pc, current, observerVars>>
    /\ UNCHANGED <<lifecycleVars, envVars, silenceVars, sendVars, playVars>>

----------------------------------------------------------------------------
(* on_device_state_changed *)

\* on_device_state_changed without its test of the state: every notification
\* opens a silence period.
DeviceStateChangedAnyState(state) ==
    /\ ~loop_closed
    /\ device_state' = state
    /\ IF codec
       THEN /\ listeners < MaxListeners
            /\ in_silence_period' = TRUE
            /\ listeners' = listeners + 1
       ELSE UNCHANGED <<in_silence_period, listeners>>
    /\ UNCHANGED <<lifecycleVars, envVars, sendVars, ttsVars>>
    /\ UNCHANGED <<playbackVars, playVars>>

\* The call up to its `await asyncio.sleep(0.2)`, or all of it when it returns early.
DeviceStateChanged(state) ==
    /\ ~loop_closed
    /\ device_state' = state
    /\ IF codec /\ state = "LISTENING"
       THEN /\ listeners < MaxListeners
            /\ in_silence_period' = TRUE
            /\ listeners' = listeners + 1
       ELSE UNCHANGED <<in_silence_period, listeners>>
    /\ UNCHANGED <<lifecycleVars, envVars, sendVars, ttsVars>>
    /\ UNCHANGED <<playbackVars, playVars>>

\* on_device_state_changed with the flag cleared after the wait instead of in
\* a `finally` block: an exception in the wait skips it.
ListenerExitNoFinally(how) ==
    /\ ~loop_closed
    /\ listeners > 0
    /\ listeners' = listeners - 1
    /\ in_silence_period' = IF how = "done" THEN FALSE ELSE in_silence_period
    /\ UNCHANGED device_state
    /\ UNCHANGED <<lifecycleVars, envVars, sendVars, ttsVars>>
    /\ UNCHANGED <<playbackVars, playVars>>

\* The wait ends ("done") or raises into the coroutine ("cancelled"): the
\* `finally` block runs either way.
ListenerExit(how) ==
    /\ ~loop_closed
    /\ listeners > 0
    /\ listeners' = listeners - 1
    /\ in_silence_period' = FALSE
    /\ UNCHANGED device_state
    /\ UNCHANGED <<lifecycleVars, envVars, sendVars, ttsVars>>
    /\ UNCHANGED <<playbackVars, playVars>>

----------------------------------------------------------------------------
(* The outbound path: _on_encoded_audio, _schedule_send_audio, _send *)

InFlight == posted + spawnedInSilence + spawnedClear + sending

\* _on_encoded_audio without its test of is_closed().
LoopUsableUnlessUnset == app /\ main_loop /\ running

\* _on_encoded_audio's tests before it posts (audio.py:170-173).
LoopUsable == app /\ main_loop /\ running /\ ~loop_closed

\* _on_encoded_audio on the capture thread, up to call_soon_threadsafe.
OnEncodedCheck ==
    /\ encoded_callback
    /\ encPc = "idle"
    /\ InFlight < MaxTasks
    /\ encPc' = IF LoopUsable THEN "post" ELSE "idle"
    /\ last_send' = IF LoopUsable THEN last_send ELSE "dropped"
    /\ UNCHANGED <<send_sem, posted, spawnedInSilence, spawnedClear, sending>>
    /\ UNCHANGED <<lifecycleVars, envVars, silenceVars, ttsVars>>
    /\ UNCHANGED <<playbackVars, playVars>>

\* _on_encoded_audio, its call_soon_threadsafe: a closed loop raises, and
\* the exception is swallowed.
OnEncodedPost ==
    /\ encPc = "post"
    /\ encPc' = "idle"
    /\ posted' = IF loop_closed THEN posted ELSE posted + 1
    /\ last_send' = IF loop_closed THEN "dropped" ELSE last_send
    /\ escaped' = Escapes(loop_closed, "call_soon_threadsafe")
    /\ UNCHANGED <<send_sem, spawnedInSilence, spawnedClear, sending>>
    /\ UNCHANGED <<playerVars, pc, current, observerVars>>
    /\ UNCHANGED <<lifecycleVars, envVars, silenceVars>>
    /\ UNCHANGED <<playbackVars, playVars>>

\* _schedule_send_audio on the main loop.
ScheduleSendAudio ==
    /\ ~loop_closed
    /\ posted > 0
    /\ posted' = posted - 1
    /\ IF ~app \/ ~running \/ protocol = "None"
       THEN UNCHANGED <<spawnedInSilence, spawnedClear>>
       ELSE IF in_silence_period
       THEN /\ spawnedInSilence' = spawnedInSilence + 1
            /\ UNCHANGED spawnedClear
       ELSE /\ spawnedClear' = spawnedClear + 1
            /\ UNCHANGED spawnedInSilence
    /\ UNCHANGED <<send_sem, encPc, sending, last_send>>
    /\ UNCHANGED <<lifecycleVars, envVars, silenceVars, ttsVars>>
    /\ UNCHANGED <<playbackVars, playVars>>

\* _should_send_microphone_audio without its test of the silence period.
ShouldSendIgnoringSilence == app /\ capture = "allow"

\* _should_send_microphone_audio (a raising predicate counts as False).
ShouldSendMicrophoneAudio ==
    IF in_silence_period THEN FALSE ELSE app /\ capture = "allow"

\* A semaphore that lets a task in only when no permit is taken.
SemFreeWhenUntouched == send_sem = MAX_CONCURRENT_AUDIO_SENDS

\* A semaphore that never blocks.
SemNeverBlocks == TRUE

\* `async with self._send_sem` lets a task in.
SemFree == send_sem > 0

\* A _send task that does not look at the channel before it sends.
SendDecisionUnchecked == IF ShouldSendMicrophoneAudio THEN "sending" ELSE "gated"

\* What a _send task does once inside `async with`, up to its first
\* suspension: "channel_closed" and "gated" leave at once, "sending" is
\* suspended in protocol.send_audio.
SendDecision ==
    IF protocol # "opened" THEN "channel_closed"
    ELSE IF ShouldSendMicrophoneAudio THEN "sending"
    ELSE "gated"

\* A _send task acquires a permit and runs to its first suspension or its end.
SendTask(inSilence) ==
    /\ ~loop_closed
    /\ IF inSilence
       THEN /\ spawnedInSilence > 0
            /\ spawnedInSilence' = spawnedInSilence - 1
            /\ UNCHANGED spawnedClear
       ELSE /\ spawnedClear > 0
            /\ spawnedClear' = spawnedClear - 1
            /\ UNCHANGED spawnedInSilence
    /\ SemFree
    /\ last_send' = SendDecision
    /\ IF SendDecision = "sending"
       THEN /\ send_sem' = send_sem - 1
            /\ sending' = sending + 1
       ELSE UNCHANGED <<send_sem, sending>>
    /\ UNCHANGED <<encPc, posted>>
    /\ UNCHANGED <<lifecycleVars, envVars, silenceVars, ttsVars>>
    /\ UNCHANGED <<playbackVars, playVars>>

\* A release placed after send_audio instead of in `async with`: an exception
\* skips it.
ReleasedUnlessRaised(outcome) == IF outcome = "returned" THEN send_sem + 1 ELSE send_sem

\* The permits after a send task that was in send_audio has left `async with`.
Released(outcome) == send_sem + 1

\* protocol.send_audio returns, raises or is cancelled.
SendDone(outcome) ==
    /\ ~loop_closed
    /\ sending > 0
    /\ sending' = sending - 1
    /\ send_sem' = Released(outcome)
    /\ last_send' = outcome
    /\ escaped' = Escapes(outcome = "raised", "send_audio")
    /\ UNCHANGED <<encPc, posted, spawnedInSilence, spawnedClear>>
    /\ UNCHANGED <<playerVars, pc, current, observerVars>>
    /\ UNCHANGED <<lifecycleVars, envVars, silenceVars>>
    /\ UNCHANGED <<playbackVars, playVars>>


----------------------------------------------------------------------------
(* The music app and its user *)

\* The music app's audio session appears, disappears, starts or stops playing.
EnvSession ==
    /\ \E s \in {"none", "inactive", "active"} :
        /\ s # session
        /\ session' = s
        /\ IF session = "none" THEN volume' \in Volumes ELSE volume' = volume
    /\ UNCHANGED original_volume
    /\ player_event' = NoEvent
    /\ row' = NoRow
    /\ scenario' = NoScenario
    /\ UNCHANGED <<ducked_from, handlerVars>>
    /\ UNCHANGED <<lifecycleVars, envVars, silenceVars, sendVars>>
    /\ race' = NoRace
    /\ UNCHANGED <<playbackVars, playVars>>

\* The user, or the music app, changes the session's volume.
EnvVolume ==
    /\ session # "none"
    /\ \E v \in Volumes : v # volume /\ volume' = v
    /\ UNCHANGED <<session, original_volume>>
    /\ player_event' = NoEvent
    /\ row' = NoRow
    /\ scenario' = NoScenario
    /\ UNCHANGED <<ducked_from, handlerVars>>
    /\ UNCHANGED <<lifecycleVars, envVars, silenceVars, sendVars>>
    /\ race' = NoRace
    /\ UNCHANGED <<playbackVars, playVars>>

----------------------------------------------------------------------------
(* Observers of the TTS handlers: they record, and decide nothing. *)

AllIdle == \A h \in Handlers : pc[h] = "idle"

\* A row of duck_volume calls ends with anything else that happens; a return
\* is looked at in the state it leads to, and then the row's call is over.
Settled(r) == IF r.st = "repeated" THEN Armed ELSE r

\* The scenario after a step of the handler that runs alone.
ScenarioStep(faulted, finished) ==
    IF scenario.phase \notin {"start", "stop"} THEN scenario
    ELSE [scenario EXCEPT
            !.clean = @ /\ ~faulted,
            !.phase = IF ~finished THEN @
                      ELSE IF @ = "start" THEN "started" ELSE "stopped"]

\* The scenario when on_incoming_json is entered with `message`.
ScenarioEnter(message) ==
    IF message \notin {"tts_start", "tts_stop"} THEN scenario
    ELSE IF message = "tts_start" /\ AllIdle /\ session # "none"
            /\ volume > TTS_DUCK_LEVEL /\ original_volume = {}
    THEN [phase |-> "start", v |-> volume, playing |-> session = "active", clean |-> TRUE]
    ELSE IF message = "tts_stop" /\ AllIdle /\ scenario.phase = "started"
    THEN [scenario EXCEPT !.phase = IF original_volume = {} THEN "stopped" ELSE "stop"]
    ELSE NoScenario

\* The record of the calls made since the player's state was noted: a call
\* that met a failure of the session makes it unclean.
RaceFault(faulted) ==
    IF race.st = "none" THEN race ELSE [race EXCEPT !.clean = @ /\ ~faulted]

\* A duck_volume ("duck") or restore_volume ("restore") call is dispatched to
\* a worker thread.
RaceCall(kind, dispatched) ==
    IF race.st = "none" \/ ~dispatched THEN race
    ELSE IF kind = "duck" THEN [race EXCEPT !.duck = IF @ = 0 THEN 1 ELSE 2]
    ELSE [race EXCEPT !.restore = IF @ = 0 THEN 1 ELSE 2]

\* codec.clear_audio_queue ("clear") or is_music_actually_playing
\* ("playing") has ended: what it returned, or that it raised.
RaceReturn(call, ret) ==
    IF race.st = "none" THEN race
    ELSE [race EXCEPT !.last =
            IF call = "clear" THEN (IF ret THEN "cleared" ELSE "clear_raised")
            ELSE (IF ret THEN "playing" ELSE "not_playing")]

\* on_incoming_json is given `message`: a "start", then a "stop", or else.
RaceMessage(message) ==
    IF race.st = "none" \/ message \notin {"tts_start", "tts_stop"} THEN race
    ELSE [race EXCEPT !.msgs =
            IF @ = "none" /\ message = "tts_start" THEN "start"
            ELSE IF @ = "start" /\ message = "tts_stop" THEN "start_stop"
            ELSE "other"]

----------------------------------------------------------------------------
(* MusicPlayer: is_music_actually_playing, duck_volume, restore_volume *)

\* What is_music_actually_playing may return: the session's state, or, when
\* the session query raises, the answer of is_music_app_running.
IsMusicActuallyPlaying(faulted) ==
    IF faulted THEN BOOLEAN ELSE {session = "active"}

\* duck_volume going on without a session object.
SessionAssumed(faulted) == ~faulted

\* _get_music_session finds the session (a failing query returns None).
SessionFound(faulted) == session # "none" /\ ~faulted

\* duck_volume's test with < for <=: a volume at the duck level is ducked again.
AlreadyLowStrict(cur) == cur < TTS_DUCK_LEVEL

\* duck_volume's test of the volume it read (music_player.py:270).
AlreadyLow(cur) == cur <= TTS_DUCK_LEVEL

\* duck_volume storing the volume it set instead of the volume it read.
StoredAfterDuck(cur) == TTS_DUCK_LEVEL

\* What duck_volume stores in _original_volume (music_player.py:273).
StoredOnDuck(cur) == cur

\* restore_volume keeping the stored value when SetMasterVolume raises.
KeptOnFailedRestore(path) == IF path = "raised" THEN original_volume ELSE {}

\* _original_volume after restore_volume has attempted the restoration: None
\* when the session is gone (music_player.py:289), after the volume was set
\* (295) and in the except block (299).
ClearedOnRestore(path) == {}

\* restore_volume setting the full volume instead of the stored one.
RestoreTargetFull(stored) == 10

\* What restore_volume sets the session volume to (music_player.py:293).
RestoreTarget(stored) == stored

----------------------------------------------------------------------------
(* on_incoming_json and the worker-thread calls it awaits *)

\* on_incoming_json with `else` for `elif state == "stop"`.
DispatchElseStop(message) ==
    IF message = "tts_start" THEN "start"
    ELSE IF message \in {"tts_stop", "tts_other_state"} THEN "stop"
    ELSE "ignore"

\* What on_incoming_json does with `message` (audio.py:74-86).
Dispatch(message) ==
    IF message = "tts_start" THEN "start"
    ELSE IF message = "tts_stop" THEN "stop"
    ELSE "ignore"

\* on_incoming_json up to its first suspension, or all of it when nothing is
\* awaited.
IncomingJson(h, message) ==
    /\ ~loop_closed
    /\ pc[h] = "idle"
    /\ pc' = [pc EXCEPT ![h] =
            IF Dispatch(message) = "start" THEN (IF codec THEN "clear" ELSE "playing")
            ELSE IF Dispatch(message) = "stop" /\ original_volume # {} THEN "restore"
            ELSE "idle"]
    /\ scenario' = ScenarioEnter(message)
    /\ player_event' = IF message \in {"tts_start", "tts_stop"} THEN NoEvent ELSE Passed
    /\ row' = Settled(row)
    /\ UNCHANGED <<playerVars, current, escaped, ducked_from>>
    /\ UNCHANGED <<lifecycleVars, envVars, silenceVars, sendVars>>
    /\ race' = [RaceCall("restore", Dispatch(message) = "stop" /\ original_volume # {})
                 EXCEPT !.msgs = RaceMessage(message).msgs]
    /\ UNCHANGED <<playbackVars, playVars>>

\* A _duck_music_for_tts with one try block around both of its steps: a
\* failure of the queue clear skips the duck.
AfterClearInOneTry(raised) == IF raised THEN "idle" ELSE "playing"

\* Where _duck_music_for_tts goes on after codec.clear_audio_queue() returned
\* or raised: to its second step (audio.py:109-119).
AfterClear(raised) == "playing"

\* _duck_music_for_tts: codec.clear_audio_queue() returns or raises.
ClearAudioQueue(h) ==
    /\ ~loop_closed
    /\ pc[h] = "clear"
    /\ \E raised \in BOOLEAN :
        /\ pc' = [pc EXCEPT ![h] = AfterClear(raised)]
        /\ escaped' = Escapes(raised, "clear_audio_queue")
        /\ race' = RaceReturn("clear", ~raised)
    /\ player_event' = NoEvent
    /\ row' = Settled(row)
    /\ UNCHANGED <<playerVars, current, ducked_from, scenario>>
    /\ UNCHANGED <<lifecycleVars, envVars, silenceVars, sendVars>>
    /\ UNCHANGED <<playbackVars, playVars>>

\* _duck_music_for_tts: is_music_actually_playing on a worker thread.
PlayingCheck(h) ==
    /\ pc[h] = "playing"
    /\ \E faulted \in BOOLEAN : \E playing \in IsMusicActuallyPlaying(faulted) :
        /\ pc' = [pc EXCEPT ![h] = IF playing THEN "duck" ELSE "idle"]
        /\ scenario' = ScenarioStep(faulted, ~playing)
        /\ escaped' = Escapes(faulted, "playback_state")
        /\ race' = [RaceCall("duck", playing) EXCEPT
                        !.clean = RaceFault(faulted).clean,
                        !.last = RaceReturn("playing", playing).last]
    /\ player_event' = NoEvent
    /\ row' = Settled(row)
    /\ UNCHANGED <<playerVars, current, ducked_from>>
    /\ UNCHANGED <<lifecycleVars, envVars, silenceVars, sendVars>>
    /\ UNCHANGED <<playbackVars, playVars>>

\* duck_volume: the session lookup, GetMasterVolume and the test of the
\* volume (music_player.py:263-272).
DuckRead(h) ==
    /\ pc[h] = "duck"
    /\ \E lookupFails \in BOOLEAN, getRaises \in BOOLEAN :
        LET found == SessionFound(lookupFails)
            faulted == lookupFails \/ (found /\ getRaises)
            stays == found /\ ~getRaises /\ ~AlreadyLow(volume)
            why == IF ~found THEN "no_session"
                   ELSE IF getRaises THEN "raised" ELSE "low"
        IN  /\ pc' = [pc EXCEPT ![h] = IF stays THEN "duck_store" ELSE "idle"]
            /\ current' = [current EXCEPT ![h] = IF stays THEN volume ELSE 0]
            /\ player_event' = IF stays THEN NoEvent
                               ELSE [op |-> "duck", ret |-> FALSE, why |-> why]
            /\ row' = IF Settled(row).st # "armed" THEN NoRow
                      ELSE IF stays THEN [st |-> "second", h |-> h]
                      ELSE [st |-> "repeated", h |-> h]
            /\ scenario' = ScenarioStep(faulted, ~stays)
            /\ race' = RaceFault(faulted)
            /\ escaped' = IF lookupFails THEN Escapes(TRUE, "session_lookup")
                           ELSE Escapes(found /\ getRaises, "duck_get")
    /\ UNCHANGED <<playerVars, ducked_from>>
    /\ UNCHANGED <<lifecycleVars, envVars, silenceVars, sendVars>>
    /\ UNCHANGED <<playbackVars, playVars>>

\* duck_volume: self._original_volume = current (music_player.py:273).
DuckStore(h) ==
    /\ pc[h] = "duck_store"
    /\ pc' = [pc EXCEPT ![h] = "duck_set"]
    /\ original_volume' = {StoredOnDuck(current[h])}
    /\ ducked_from' = [st |-> "pending", h |-> h, v |-> current[h]]
    /\ player_event' = NoEvent
    /\ row' = IF row.st = "second" /\ row.h = h THEN row ELSE NoRow
    /\ scenario' = ScenarioStep(FALSE, FALSE)
    /\ UNCHANGED <<session, volume, current, escaped>>
    /\ UNCHANGED <<lifecycleVars, envVars, silenceVars, sendVars>>
    /\ UNCHANGED race
    /\ UNCHANGED <<playbackVars, playVars>>

\* duck_volume: SetMasterVolume(TTS_DUCK_LEVEL) and the log line that formats
\* self._original_volume (music_player.py:274-281).
DuckSet(h) ==
    /\ pc[h] = "duck_set"
    /\ \E setRaises \in BOOLEAN :
        LET set == session # "none" /\ ~setRaises
            ok == set /\ original_volume # {}
        IN  /\ volume' = IF set THEN TTS_DUCK_LEVEL ELSE volume
            /\ player_event' = [op |-> "duck", ret |-> ok,
                                why |-> IF ok THEN "ok" ELSE "raised"]
            /\ ducked_from' =
                  IF ducked_from.st = "pending" /\ ducked_from.h = h
                  THEN (IF ok THEN [ducked_from EXCEPT !.st = "valid"] ELSE NoDuck)
                  ELSE ducked_from
            /\ row' = IF row.st = "second" /\ row.h = h THEN row
                      ELSE IF ok /\ ducked_from.st = "pending" /\ ducked_from.h = h
                      THEN Armed ELSE NoRow
            /\ scenario' = ScenarioStep(~ok, TRUE)
            /\ race' = RaceFault(setRaises)
            /\ escaped' = Escapes(~ok, "duck_set")
    /\ pc' = [pc EXCEPT ![h] = "idle"]
    /\ current' = [current EXCEPT ![h] = 0]
    /\ UNCHANGED <<session, original_volume>>
    /\ UNCHANGED <<lifecycleVars, envVars, silenceVars, sendVars>>
    /\ UNCHANGED <<playbackVars, playVars>>

\* restore_volume: its test of self._original_volume (music_player.py:285-286).
RestoreEnter(h) ==
    /\ pc[h] = "restore"
    /\ pc' = [pc EXCEPT ![h] = IF original_volume = {} THEN "idle" ELSE "restore_get"]
    /\ player_event' = IF original_volume = {}
                       THEN [op |-> "restore", ret |-> FALSE, why |-> "none_stored"]
                       ELSE NoEvent
    /\ row' = NoRow
    /\ scenario' = ScenarioStep(FALSE, original_volume = {})
    /\ UNCHANGED <<playerVars, current, escaped, ducked_from>>
    /\ UNCHANGED <<lifecycleVars, envVars, silenceVars, sendVars>>
    /\ UNCHANGED race
    /\ UNCHANGED <<playbackVars, playVars>>

\* restore_volume: the session lookup (music_player.py:287-290).
RestoreGet(h) ==
    /\ pc[h] = "restore_get"
    /\ \E lookupFails \in BOOLEAN :
        LET found == SessionFound(lookupFails)
        IN  /\ pc' = [pc EXCEPT ![h] = IF found THEN "restore_set" ELSE "idle"]
            /\ original_volume' = IF found THEN original_volume
                                   ELSE ClearedOnRestore("no_session")
            /\ ducked_from' = IF found THEN ducked_from ELSE NoDuck
            /\ player_event' = IF found THEN NoEvent
                               ELSE [op |-> "restore", ret |-> FALSE, why |-> "no_session"]
            /\ scenario' = ScenarioStep(lookupFails, ~found)
            /\ race' = RaceFault(lookupFails)
            /\ escaped' = Escapes(lookupFails, "session_lookup")
    /\ row' = NoRow
    /\ UNCHANGED <<session, volume, current>>
    /\ UNCHANGED <<lifecycleVars, envVars, silenceVars, sendVars>>
    /\ UNCHANGED <<playbackVars, playVars>>

\* restore_volume: SetMasterVolume(self._original_volume) (music_player.py:293).
RestoreSet(h) ==
    /\ pc[h] = "restore_set"
    /\ \E setRaises \in BOOLEAN :
        LET set == session # "none" /\ ~setRaises /\ original_volume # {}
        IN  /\ volume' = IF set
                         THEN RestoreTarget(CHOOSE v \in original_volume : TRUE)
                         ELSE volume
            /\ pc' = [pc EXCEPT ![h] = IF set THEN "restore_clear" ELSE "restore_failed"]
            /\ scenario' = ScenarioStep(~set, FALSE)
            /\ race' = RaceFault(setRaises)
            /\ escaped' = Escapes(~set, "restore_set")
    /\ player_event' = NoEvent
    /\ row' = NoRow
    /\ UNCHANGED <<session, original_volume, current, ducked_from>>
    /\ UNCHANGED <<lifecycleVars, envVars, silenceVars, sendVars>>
    /\ UNCHANGED <<playbackVars, playVars>>

\* restore_volume: the log line that formats self._original_volume, then
\* self._original_volume = None, on the normal path and in the except block
\* (music_player.py:294-300).
RestoreClear(h) ==
    /\ pc[h] \in {"restore_clear", "restore_failed"}
    /\ LET ok == pc[h] = "restore_clear" /\ original_volume # {}
       IN  /\ player_event' = [op |-> "restore", ret |-> ok,
                               why |-> IF ok THEN "ok" ELSE "raised"]
           /\ scenario' = ScenarioStep(~ok, TRUE)
           /\ original_volume' = ClearedOnRestore(IF ok THEN "ok" ELSE "raised")
           /\ escaped' = Escapes(pc[h] = "restore_clear" /\ ~ok, "restore_log")
    /\ pc' = [pc EXCEPT ![h] = "idle"]
    /\ ducked_from' = NoDuck
    /\ row' = NoRow
    /\ UNCHANGED <<session, volume, current>>
    /\ UNCHANGED <<lifecycleVars, envVars, silenceVars, sendVars>>
    /\ UNCHANGED race
    /\ UNCHANGED <<playbackVars, playVars>>

----------------------------------------------------------------------------

\* The outbound audio path with everything that decides it: the application's
\* flags, setup, the silence period and the send tasks.
Next ==
    \/ EnvRunning
    \/ EnvProtocol
    \/ EnvCapture
    \/ SetupBegin
    \/ SetupFinish
    \/ \E state \in DeviceState : DeviceStateChanged(state)
    \/ \E how \in {"done", "cancelled"} : ListenerExit(how)
    \/ OnEncodedCheck
    \/ OnEncodedPost
    \/ ScheduleSendAudio
    \/ \E inSilence \in BOOLEAN : SendTask(inSilence)
    \/ \E outcome \in {"returned", "raised", "cancelled"} : SendDone(outcome)

Spec == Init /\ [][Next]_vars

\* The silence period alone, with everything that decides it: the codec's
\* life (setup, shutdown), the device-state notifications and the main loop.
ListenerWake == \E how \in {"done", "cancelled"} : ListenerExit(how)

NextSilence ==
    \/ EnvLoopClose
    \/ SetupBegin
    \/ SetupFinish
    \/ ShutdownBegin
    \/ ShutdownEnd
    \/ \E state \in DeviceState : DeviceStateChanged(state)
    \/ ListenerWake

\* asyncio.sleep(0.2) ends: the loop's timer wakes every waiting invocation.
SpecSilence == Init /\ [][NextSilence]_vars /\ WF_vars(ListenerWake)

\* The TTS messages and the volume ducking, with everything that decides
\* them: the codec from setup, the music app's session and its volume.
NextTts ==
    \/ SetupBegin
    \/ SetupFinish
    \/ EnvSession
    \/ EnvVolume
    \/ \E h \in Handlers, message \in Messages : IncomingJson(h, message)
    \/ \E h \in Handlers : ClearAudioQueue(h)
    \/ \E h \in Handlers : PlayingCheck(h)
    \/ \E h \in Handlers : DuckRead(h)
    \/ \E h \in Handlers : DuckStore(h)
    \/ \E h \in Handlers : DuckSet(h)
    \/ \E h \in Handlers : RestoreEnter(h)
    \/ \E h \in Handlers : RestoreGet(h)
    \/ \E h \in Handlers : RestoreSet(h)
    \/ \E h \in Handlers : RestoreClear(h)

SpecTts == Init /\ [][NextTts]_vars

----------------------------------------------------------------------------
(* The outbound path and the silence period: C1, C2, C3, C6, C7, C8 *)

\* C1: in every reachable state at most MAX_CONCURRENT_AUDIO_SENDS (4) send
\* tasks hold a permit of _send_sem, whatever the number of frames handed to
\* _schedule_send_audio and the order in which the tasks run.
C1_AtMostFourHolders == sending <= MAX_CONCURRENT_AUDIO_SENDS

\* All permits are held and a further send task waits for one.
C1_Saturated ==
    /\ sending = MAX_CONCURRENT_AUDIO_SENDS
    /\ spawnedInSilence + spawnedClear > 0

\* C2: a frame that _schedule_send_audio hands to a send task while the
\* silence-period flag is true is never passed to protocol.send_audio.
C2_SilentFramesBlocked ==
    [][~(spawnedInSilence' < spawnedInSilence /\ sending' > sending)]_vars

\* C3: protocol.send_audio is started for a frame only in a state where the
\* protocol exists with its audio channel opened, the silence-period flag is
\* false and should_capture_audio() returns true (a raising predicate sends
\* nothing); so no send starts while the silence-period flag is true.
C3_SendOnlyWhenAllowed ==
    [][sending' > sending =>
        /\ app
        /\ protocol = "opened"
        /\ ~in_silence_period
        /\ capture = "allow"]_vars

\* A send task has just entered protocol.send_audio.
C3_SendStarted == last_send = "sending" /\ sending > 0

C7_ClearedOnEveryExit ==
    /\ [][listeners' < listeners => ~in_silence_period']_vars
    /\ (in_silence_period ~> (~in_silence_period \/ loop_closed))

\* One of two overlapping LISTENING invocations has left its wait: the flag
\* is false while the other one still waits.
C7_ExitedAndCleared == listeners = 1 /\ ~in_silence_period /\ codec

\* C8: every send task gives back the permit it took, however it ends: the
\* free permits and the tasks holding one add up to 4, and all 4 are free
\* when no send task is in send_audio.
C8_PermitsConserved ==
    /\ send_sem + sending = MAX_CONCURRENT_AUDIO_SENDS
    /\ send_sem >= 0

\* A send_audio call raised, and all permits are free again.
C8_ReleasedAfterRaise ==
    last_send = "raised" /\ sending = 0 /\ send_sem = MAX_CONCURRENT_AUDIO_SENDS

----------------------------------------------------------------------------
(* TTS messages and volume ducking: C4, C5, C9, C10 *)

C5_StoredOnlyWhenNone ==
    [][\A h \in Handlers :
        (pc[h] = "duck_store" /\ pc'[h] = "duck_set"
            /\ original_volume' # original_volume
            /\ ducked_from.st = "valid" /\ current[h] = volume
            /\ \A g \in Handlers \ {h} : pc[g] = "idle") =>
        /\ original_volume = {}
        /\ \A v \in original_volume' : v > TTS_DUCK_LEVEL]_vars

\* C9 as claimed: restore_volume with nothing stored changes neither the
\* volume nor _original_volume and returns False; restore_volume after a
\* duck_volume that returned True, with the session still present, sets the
\* volume to the value it had before that duck and returns True.
C9_RestoreWhenSessionPresent ==
    [][\A h \in Handlers :
        /\ (pc[h] = "restore" /\ pc'[h] # "restore" /\ original_volume = {}) =>
            /\ volume' = volume /\ original_volume' = {}
            /\ player_event'.op = "restore" /\ ~player_event'.ret
        /\ (pc[h] = "restore_set" /\ pc'[h] # "restore_set"
                /\ ducked_from.st = "valid" /\ session # "none"
                /\ \A g \in Handlers \ {h} : pc[g] = "idle") =>
            (pc'[h] = "restore_clear" /\ volume' = ducked_from.v)
        /\ (pc[h] = "restore_clear" /\ pc'[h] # "restore_clear"
                /\ ducked_from.st = "valid") =>
            (player_event'.op = "restore" /\ player_event'.ret)]_vars

\* C9 as amended: restore_volume with nothing stored changes neither the
\* volume nor _original_volume and returns False; restore_volume after a
\* duck_volume that returned True, when the session is found and setting its
\* volume does not raise, sets the volume to the value it had before that duck
\* and returns True.
C9_RestoreWhenSetSucceeds ==
    [][\A h \in Handlers :
        /\ (pc[h] = "restore" /\ pc'[h] # "restore" /\ original_volume = {}) =>
            /\ volume' = volume /\ original_volume' = {}
            /\ player_event'.op = "restore" /\ ~player_event'.ret
        /\ (pc[h] = "restore_set" /\ pc'[h] = "restore_clear"
                /\ ducked_from.st = "valid") =>
            volume' = ducked_from.v
        /\ (pc[h] = "restore_clear" /\ pc'[h] # "restore_clear"
                /\ ducked_from.st = "valid") =>
            (player_event'.op = "restore" /\ player_event'.ret)]_vars

\* restore_volume has just returned True with the volume back above the duck level.
C9_Restored ==
    player_event.op = "restore" /\ player_event.ret /\ volume > TTS_DUCK_LEVEL

\* C10: a duck_volume call that follows a duck_volume call that returned True,
\* with no restore_volume and no other change in between, stops at its test of
\* the volume: it returns False, the volume is still the duck level and the
\* stored pre-duck value is still the one of the first call.
C10_SecondDuckIsNoOp ==
    /\ row.st # "second"
    /\ row.st = "repeated" =>
        /\ player_event.op = "duck" /\ ~player_event.ret
        /\ volume = TTS_DUCK_LEVEL
        /\ ducked_from.st = "valid"
        /\ original_volume = {ducked_from.v}

\* The second call has just found the volume at the duck level.
C10_SecondDuckReturned == row.st = "repeated" /\ player_event.why = "low"

----------------------------------------------------------------------------
(* restore_volume and the failures of the collaborators: C11, C12, C13 *)

\* C11: whenever restore_volume is entered with a pre-duck volume stored,
\* _original_volume is None when it returns, on every path: it returns True
\* only after the session was found and its volume set; when the session is
\* gone it returns False and leaves the volume alone; when setting the volume
\* raises it returns False.
C11_ClearedOnEveryReturn ==
    [][\A h \in Handlers :
        (pc[h] \in {"restore_get", "restore_clear", "restore_failed"}
            /\ pc'[h] = "idle") =>
        /\ original_volume' = {}
        /\ player_event'.op = "restore"
        /\ player_event'.ret => pc[h] = "restore_clear"
        /\ pc[h] = "restore_get" => (~player_event'.ret /\ volume' = volume)
        /\ pc[h] = "restore_failed" => ~player_event'.ret]_vars

\* restore_volume has just returned False from its except block, with the
\* session still there, and nothing is stored.
C11_ClearedAfterRaise ==
    /\ player_event = [op |-> "restore", ret |-> FALSE, why |-> "raised"]
    /\ session # "none"
    /\ original_volume = {}

\* C12: while the music app has no audio session, handling a TTS "start"
\* performs no duck, or a duck_volume that returns False for want of a
\* session; no exception leaves on_incoming_json; and the handler stores no
\* pre-duck value (and changes no volume), so none is stored afterwards when
\* none was stored before.
C12_NoSessionNoDuck ==
    [][\A h \in Handlers :
        (session = "none" /\ pc[h] \in {"clear", "playing", "duck"}
            /\ pc'[h] # pc[h]) =>
        /\ original_volume' = original_volume
        /\ volume' = volume
        /\ escaped' = "none"
        /\ pc'[h] \in {"playing", "duck", "idle"}
        /\ pc[h] = "duck" =>
            /\ pc'[h] = "idle"
            /\ player_event' = [op |-> "duck", ret |-> FALSE, why |-> "no_session"]]_vars

\* duck_volume has just returned False because there is no session, and
\* nothing is stored.
C12_DuckRefusedWithoutSession ==
    /\ player_event = [op |-> "duck", ret |-> FALSE, why |-> "no_session"]
    /\ session = "none"
    /\ original_volume = {}
    /\ escaped = "none"

\* C13: no failure of a collaborator (codec.clear_audio_queue, the session
\* lookup, GetMasterVolume / SetMasterVolume, the playback-state query) leaves
\* duck_volume, restore_volume or on_incoming_json: a duck_volume or
\* restore_volume that met one returns False, and the handler that made the
\* call has returned, ready for the next message.
C13_FailuresSwallowed ==
    /\ escaped = "none"
    /\ player_event.why \in {"raised", "no_session"} => ~player_event.ret
    /\ player_event.op # "none" => \E h \in Handlers : pc[h] = "idle"

\* duck_volume has just returned False after GetMasterVolume or
\* SetMasterVolume raised, and every handler has returned.
C13_DuckFailedQuietly ==
    /\ player_event = [op |-> "duck", ret |-> FALSE, why |-> "raised"]
    /\ AllIdle
    /\ escaped = "none"

----------------------------------------------------------------------------
(* The send task's own tests, dropped frames, waiting for a permit: C14-C16 *)

\* C14 as claimed: a send task calls protocol.send_audio only in a state
\* where app.running is true and the audio channel is opened, so a task that
\* reaches its send step after running became false, or after the channel
\* closed, does not send.
C14_RunningAndChannelAtSend ==
    [][sending' > sending => (running /\ protocol = "opened")]_vars

\* C14, amended: the send task tests the channel, and app.running is tested
\* where the frame is scheduled: a send task calls send_audio only with the
\* audio channel opened, and a send task is spawned only while app.running is
\* true and the protocol exists.
C14_ChannelAtSendRunningAtSchedule ==
    [][/\ sending' > sending => protocol = "opened"
       /\ spawnedInSilence' + spawnedClear' > spawnedInSilence + spawnedClear =>
            (app /\ running /\ protocol # "None")]_vars

\* A send task that had to wait for a permit got one and found the channel
\* not opened: it left without sending.
C14_WaitedThenChannelClosed ==
    /\ last_send = "channel_closed"
    /\ protocol # "opened"
    /\ sending = MAX_CONCURRENT_AUDIO_SENDS - 1

\* The frames of the capture thread with everything that drops them: the
\* running flag, the main loop being unset or closed, the protocol.
NextCapture ==
    \/ EnvRunning
    \/ EnvProtocol
    \/ EnvCapture
    \/ EnvLoopClose
    \/ SetupBegin
    \/ SetupFinish
    \/ OnEncodedCheck
    \/ OnEncodedPost
    \/ ScheduleSendAudio
    \/ \E inSilence \in BOOLEAN : SendTask(inSilence)
    \/ \E outcome \in {"returned", "raised", "cancelled"} : SendDone(outcome)

SpecCapture == Init /\ [][NextCapture]_vars

SendTaskStep == \E inSilence \in BOOLEAN : SendTask(inSilence)
SendDoneStep == \E outcome \in {"returned", "raised", "cancelled"} : SendDone(outcome)

NextSend ==
    \/ EnvProtocol
    \/ EnvCapture
    \/ SetupBegin
    \/ SetupFinish
    \/ OnEncodedCheck
    \/ OnEncodedPost
    \/ ScheduleSendAudio
    \/ SendTaskStep
    \/ SendDoneStep

\* The loop runs what is ready, and every send_audio call ends.
SpecSend ==
    /\ Init
    /\ [][NextSend]_vars
    /\ WF_vars(ScheduleSendAudio)
    /\ WF_vars(SendTaskStep)
    /\ WF_vars(SendDoneStep)

\* C16: with 5 frames scheduled at once, channel opened and sending allowed,
\* 4 send tasks are in send_audio and the fifth waits; a send task waits only
\* while all 4 permits are held, so it gets one as soon as a holder releases;
\* and on a loop that schedules fairly, with every send_audio call coming to
\* an end, once no further frame arrives every spawned send task finishes.
C16_FifthWaitsThenAllFinish ==
    /\ [](spawnedInSilence + spawnedClear > 0 =>
            (ENABLED SendTaskStep <=> sending < MAX_CONCURRENT_AUDIO_SENDS))
    /\ [](sending <= MAX_CONCURRENT_AUDIO_SENDS)
    /\ (<>[][posted' <= posted]_vars) => <>[](InFlight = 0)

\* Five frames were scheduled with the channel opened and sending allowed:
\* four tasks are in send_audio and one waits for a permit.
C16_FourSendingOneWaiting ==
    /\ sending = MAX_CONCURRENT_AUDIO_SENDS
    /\ spawnedInSilence + spawnedClear = 1
    /\ posted = 0
    /\ protocol = "opened" /\ capture = "allow" /\ ~in_silence_period

----------------------------------------------------------------------------
(* Messages of no concern: C17 *)

\* C17: on_incoming_json given something that is not a dict, a dict whose
\* type is not "tts", or a tts message whose state is neither "start" nor
\* "stop", changes nothing: no handler goes on to clear the codec queue, to
\* duck or to restore; the session volume and _original_volume, the
\* silence-period flag and the permits stay as they are; nothing is raised.
C17_OtherMessagesChangeNothing ==
    [][(player_event' = Passed /\ player_event # Passed) =>
        /\ UNCHANGED <<pc, current, escaped>>
        /\ UNCHANGED <<session, volume, original_volume>>
        /\ UNCHANGED <<in_silence_period, listeners, send_sem>>
        /\ UNCHANGED <<codec, audio_codec>>]_vars

\* Such a message was handled while a pre-duck volume was stored and the
\* session was ducked: both are as they were.
C17_PassedWhileDucked ==
    /\ player_event = Passed
    /\ ducked_from.st = "valid"
    /\ original_volume = {ducked_from.v}
    /\ volume = TTS_DUCK_LEVEL
    /\ AllIdle

----------------------------------------------------------------------------
(* setup and shutdown: C18, C19, C20 *)

\* C18: shutdown is idempotent. When a shutdown call returns, self.codec is
\* None and app.audio_codec is None, also when codec.close() raised; a
\* shutdown call that finds self.codec None closes nothing and leaves the
\* plugin as it is.
C18_ShutdownIdempotent ==
    [][/\ (closers' < closers \/ last_shutdown' # last_shutdown) =>
            (~codec' /\ ~audio_codec')
       /\ (last_shutdown' = "nothing_to_close" /\ last_shutdown' # last_shutdown) =>
            /\ UNCHANGED <<codec, audio_codec, encoded_callback, closers>>
            /\ UNCHANGED <<app, main_loop, setupPc, in_silence_period, listeners>>]_vars

\* A codec was set up and closed by a shutdown, and a further shutdown has
\* returned after it.
C18_ShutdownAfterShutdown ==
    /\ last_shutdown = "nothing_to_close"
    /\ encoded_callback
    /\ ~codec /\ ~audio_codec
    /\ closers = 0

\* C19: setup never raises because of the codec. When setup returns,
\* either the codec's construction, initialize() or set_encoded_callback
\* raised and self.codec is None, or self.codec is set with _on_encoded_audio
\* registered as its encoded callback and app.audio_codec referring to it;
\* the callback is registered and the codec published only on that path.
C19_SetupNeverRaises ==
    [][/\ (setupPc' # setupPc) => escaped' = "none"
       /\ (setupPc' = "done" /\ setupPc # "done") =>
            (codec' => (encoded_callback' /\ audio_codec'))
       /\ ((encoded_callback' /\ ~encoded_callback)
                \/ (audio_codec' /\ ~audio_codec)) =>
            (setupPc' = "done" /\ codec' /\ encoded_callback' /\ audio_codec')]_vars

\* setup has returned with the codec set, registered and published.
C19_SetupSucceeded ==
    /\ setupPc = "done"
    /\ codec /\ encoded_callback /\ audio_codec
    /\ escaped = "none"
    /\ last_shutdown = "none" /\ closers = 0

----------------------------------------------------------------------------
(* The codec and everything that uses it: C21 *)

\* The codec's life and its users on the main loop, while the music app is
\* not there: setup, shutdown, the audio that comes in and the TTS messages.
NextCodec ==
    \/ SetupBegin
    \/ SetupFinish
    \/ ShutdownBegin
    \/ ShutdownEnd
    \/ IncomingAudio
    \/ WriteAudioDone
    \/ \E h \in Handlers, message \in Messages : IncomingJson(h, message)
    \/ \E h \in Handlers : ClearAudioQueue(h)
    \/ \E h \in Handlers : PlayingCheck(h)
    \/ \E h \in Handlers : DuckRead(h)

SpecCodec == Init /\ [][NextCodec]_vars

\* C21: on_incoming_audio never raises. With a codec present it passes the
\* bytes to codec.write_audio once, and returns when that call returns or
\* raises (the failure is swallowed, the write is not made again); with
\* self.codec None (setup failed, audio disabled, after shutdown) it drops
\* the data and makes no codec call.
C21_WrittenOnceOrDropped ==
    [][/\ escaped' = "none"
       /\ writers' > writers => (codec /\ writers' = writers + 1)
       /\ writers' < writers =>
            (writers' = writers - 1 /\ last_audio' \in {"written", "write_raised"})
       /\ (last_audio' = "dropped" /\ last_audio # "dropped") =>
            (~codec /\ writers' = writers)
       /\ (last_audio' = "writing" /\ last_audio # "writing") =>
            writers' = writers + 1]_vars

\* With a codec present a write was made and raised: on_incoming_audio has
\* returned and nothing was raised out of it.
C21_WriteRaisedQuietly ==
    /\ last_audio = "write_raised"
    /\ codec
    /\ writers = 0
    /\ escaped = "none"

----------------------------------------------------------------------------
(* Calls and handlers that overlap: C22, C24 *)

\* The player's state is noted while no handler runs and the music app has a
\* session; what is called from then on is recorded in `race`.
NotePlayerState ==
    /\ AllIdle
    /\ session # "none"
    /\ race.st = "none"
    /\ race' = [st |-> "noted", v |-> volume, o |-> original_volume, msgs |-> "none",
                duck |-> 0, restore |-> 0, clean |-> TRUE, last |-> "none"]
    /\ UNCHANGED <<player_event, ducked_from, row, scenario>>
    /\ UNCHANGED <<playerVars, handlerVars>>
    /\ UNCHANGED <<lifecycleVars, envVars, silenceVars, sendVars, playbackVars, playVars>>

\* duck_volume run alone on the player's state s, with the session found
\* and no call raising (music_player.py:263-278).
DuckSerial(s) ==
    IF AlreadyLow(s.v) THEN s
    ELSE [v |-> TTS_DUCK_LEVEL, o |-> {StoredOnDuck(s.v)}]

\* restore_volume run alone on the player's state s, with the session found
\* and no call raising (music_player.py:285-296).
RestoreSerial(s) ==
    IF s.o = {} THEN s
    ELSE [v |-> RestoreTarget(CHOOSE x \in s.o : TRUE), o |-> ClearedOnRestore("ok")]

\* The TTS handlers and the music app, with the player's state noted before
\* the calls that are looked at.
NextRace ==
    \/ EnvSession
    \/ EnvVolume
    \/ NotePlayerState
    \/ \E h \in Handlers, message \in Messages : IncomingJson(h, message)
    \/ \E h \in Handlers : PlayingCheck(h)
    \/ \E h \in Handlers : DuckRead(h)
    \/ \E h \in Handlers : DuckStore(h)
    \/ \E h \in Handlers : DuckSet(h)
    \/ \E h \in Handlers : RestoreEnter(h)
    \/ \E h \in Handlers : RestoreGet(h)
    \/ \E h \in Handlers : RestoreSet(h)
    \/ \E h \in Handlers : RestoreClear(h)

SpecRace == Init /\ [][NextRace]_vars

\* C22: the read-modify-write of the stored pre-duck volume is guarded
\* against concurrent invocation: when one duck_volume call and one
\* restore_volume call, each on a worker thread, have run in any interleaving
\* (the session found, no call raising, nothing else changing the volume),
\* the stored value and the session volume they leave are those of one of
\* the two serial orders of the same calls.
C22_DuckRestoreSerializable ==
    (race.st = "noted" /\ race.clean /\ race.duck = 1 /\ race.restore = 1 /\ AllIdle) =>
        LET s0 == [v |-> race.v, o |-> race.o]
        IN  [v |-> volume, o |-> original_volume] \in
                {RestoreSerial(DuckSerial(s0)), DuckSerial(RestoreSerial(s0))}

\* C24: for a TTS "start" followed by its "stop", once both on_incoming_json
\* invocations have finished the music is not left ducked: nothing is stored
\* and the session volume is the one from before the start, also when the
\* stop handler runs while the start handler is still suspended in its
\* playback check or its duck (the session found, no call raising, nothing
\* else changing the volume).
C24_NotLeftDucked ==
    (race.st = "noted" /\ race.clean /\ race.msgs = "start_stop" /\ race.o = {}
        /\ AllIdle) =>
        (original_volume = {} /\ volume = race.v)

----------------------------------------------------------------------------
(* LISTENING notifications that overlap: C23 *)

\* C23: the silence-period flag is true during the whole wait of every
\* on_device_state_changed(LISTENING) invocation that found a codec, also
\* when a second LISTENING notification arrives before the wait of the first
\* has ended: as long as an invocation is in its wait the flag is true, so
\* the earlier invocation finishing does not lift the silence period of the
\* later one.
C23_SilentThroughEveryWait == listeners > 0 => in_silence_period

----------------------------------------------------------------------------
(* A frame is sent at most once: C25 *)

\* C25: each scheduled frame is passed to send_audio at most once. A send
\* task whose send_audio call has ended, by returning or raising, is gone
\* with its frame: the frame is not queued or spawned again, the exception
\* does not leave the task and the permit is free again. A frame rejected by
\* the channel test or the gate is discarded without a send. The frames
\* scheduled afterwards are sent as usual: a spawned task can take its step
\* whenever fewer than 4 sends are in flight on an open loop.
C25_SentAtMostOnce ==
    /\ [][/\ escaped' = "none"
          /\ sending' < sending =>
                /\ sending' = sending - 1
                /\ send_sem' = send_sem + 1
                /\ UNCHANGED <<posted, spawnedInSilence, spawnedClear>>
          /\ spawnedInSilence' + spawnedClear' < spawnedInSilence + spawnedClear =>
                /\ posted' = posted
                /\ spawnedInSilence' + spawnedClear' = spawnedInSilence + spawnedClear - 1
                /\ sending' = IF last_send' = "sending" THEN sending + 1 ELSE sending
                /\ last_send' \in {"sending", "channel_closed", "gated"}]_vars
    /\ []((spawnedInSilence + spawnedClear > 0 /\ ~loop_closed
            /\ sending < MAX_CONCURRENT_AUDIO_SENDS) => ENABLED SendTaskStep)

\* A send_audio call raised and the task is gone; the next frame is spawned
\* and about to be sent, with the channel opened and the gate open.
C25_NextFrameAfterRaise ==
    /\ last_send = "raised"
    /\ escaped = "none"
    /\ sending = 0
    /\ spawnedClear = 1
    /\ ~loop_closed
    /\ SendDecision = "sending"

----------------------------------------------------------------------------
(* duck_volume returning False: C26 *)

\* C26: a duck_volume call that returns False leaves the stored pre-duck
\* value as it found it, whatever made it fail (no session, the volume
\* already at or below 0.2, GetMasterVolume raising, SetMasterVolume
\* raising); stated for a duck_volume call that ran with no other duck or
\* restore call since the player's state was noted.
C26_FalseLeavesStoredValue ==
    (race.st = "noted" /\ race.duck = 1 /\ race.restore = 0 /\ AllIdle
        /\ player_event.op = "duck" /\ ~player_event.ret) =>
        original_volume = race.o

----------------------------------------------------------------------------
(* Entering LISTENING: C27 *)

\* The codec.clear_audio_queue() calls that are in progress. The plugin has
\* one call site, in _duck_music_for_tts (audio.py:111);
\* on_device_state_changed (audio.py:47-66) has none.
ClearAudioQueueCalls == {h \in Handlers : pc[h] = "clear"}

\* C27: on every transition into LISTENING with a codec present,
\* on_device_state_changed clears the codec's audio queue (a
\* clear_audio_queue call is made in the step that opens the silence period)
\* and then waits for the hardware output to stop before it lifts the
\* silence period (the flag is lifted only by an invocation leaving its wait).
C27_ClearsQueueThenWaits ==
    [][/\ listeners' > listeners =>
            (in_silence_period' /\ ClearAudioQueueCalls' # ClearAudioQueueCalls)
       /\ (in_silence_period /\ ~in_silence_period') => listeners' < listeners]_vars

----------------------------------------------------------------------------
(* The two steps of a TTS start: C28 *)

\* The handling of TTS "start" messages, with the codec that setup gives it
\* and the music app, and the player's state noted before the calls that are
\* looked at.
NextStart ==
    \/ SetupBegin
    \/ SetupFinish
    \/ EnvSession
    \/ NotePlayerState
    \/ \E h \in Handlers : IncomingJson(h, "tts_start")
    \/ \E h \in Handlers : ClearAudioQueue(h)
    \/ \E h \in Handlers : PlayingCheck(h)
    \/ \E h \in Handlers : DuckRead(h)
    \/ \E h \in Handlers : DuckStore(h)
    \/ \E h \in Handlers : DuckSet(h)

SpecStart == Init /\ [][NextStart]_vars

\* C28: on every TTS "start" the handler first requests
\* codec.clear_audio_queue, when a codec exists, and only afterwards attempts
\* ducking: the playback check is reached from the queue clear, or directly
\* when there is no codec; duck_volume is invoked if and only if
\* is_music_actually_playing returned true; a queue clear that raised is
\* followed by the duck attempt all the same; and the steps of the duck
\* attempt leave the codec and what was requested of it alone.
C28_ClearThenDuckIfPlaying ==
    [][\A h \in Handlers :
        /\ (pc[h] = "idle" /\ pc'[h] \in {"clear", "playing"}) =>
            (pc'[h] = "clear" <=> codec)
        /\ (pc'[h] = "playing" /\ pc[h] # "playing") =>
            (pc[h] = "clear" \/ (pc[h] = "idle" /\ ~codec))
        /\ (pc[h] = "clear" /\ pc'[h] # "clear") => pc'[h] = "playing"
        /\ (pc[h] = "playing" /\ pc'[h] # "playing" /\ race.st = "noted") =>
            /\ race'.last \in {"playing", "not_playing"}
            /\ pc'[h] = IF race'.last = "playing" THEN "duck" ELSE "idle"
        /\ (pc'[h] = "duck" /\ pc[h] # "duck") => pc[h] = "playing"
        /\ (pc[h] \in {"playing", "duck", "duck_store", "duck_set"} /\ pc'[h] # pc[h]) =>
            UNCHANGED <<codec, audio_codec, encoded_callback>>]_vars

\* The queue clear raised, and the handler is at its playback check.
C28_DuckAttemptAfterFailedClear ==
    /\ race.last = "clear_raised"
    /\ codec
    /\ \E h \in Handlers : pc[h] = "playing"
    /\ escaped = "none"

----------------------------------------------------------------------------
(* The codec while it is being closed: C29 *)

\* C29: no codec operation is started on a codec after its close() has been
\* started, whatever the interleaving of shutdown with on_incoming_audio, the
\* handling of a TTS "start" and another shutdown: close() is invoked at most
\* once per codec, no write_audio and no clear_audio_queue call begins while
\* a close() is in progress, and app.audio_codec does not refer to a codec
\* whose close() has begun (stated for the steps taken after setup has
\* returned).
C29_NoUseAfterCloseBegan ==
    [][setupPc = "done" =>
        /\ closers' <= 1
        /\ writers' > writers => closers = 0
        /\ ClearAudioQueueCalls' \ ClearAudioQueueCalls # {} => closers = 0
        /\ closers' > 0 => ~audio_codec']_vars

----------------------------------------------------------------------------
(* MusicPlayer.play: C30 *)

\* play (music_player.py:397): is_music_app_running on a worker thread.
\* Without a session the process may be there or not, and with one a failing
\* process query still answers False (music_player.py:205-207).
PlayBegin(p) ==
    /\ playPc[p] = "idle"
    /\ \E appRunning \in BOOLEAN :
        playPc' = [playPc EXCEPT ![p] = IF appRunning THEN "check" ELSE "launch"]
    /\ UNCHANGED last_play
    /\ UNCHANGED <<lifecycleVars, envVars, silenceVars, sendVars, ttsVars, playbackVars>>

\* play (398-407): _open_uri and the 3 s wait; a failure returns an error.
PlayLaunch(p) ==
    /\ playPc[p] = "launch"
    /\ \E raised \in BOOLEAN :
        /\ playPc' = [playPc EXCEPT ![p] = IF raised THEN "idle" ELSE "check"]
        /\ last_play' = IF raised THEN "error" ELSE last_play
    /\ UNCHANGED <<lifecycleVars, envVars, silenceVars, sendVars, ttsVars, playbackVars>>

\* play (410-415): is_music_actually_playing on a worker thread; the key is
\* sent next when the answer is False ("key_unsure" when the answer came from
\* the fallback after a failed session query).
PlayCheck(p) ==
    /\ playPc[p] = "check"
    /\ \E faulted \in BOOLEAN : \E playing \in IsMusicActuallyPlaying(faulted) :
        /\ playPc' = [playPc EXCEPT ![p] =
                IF playing THEN "idle" ELSE IF faulted THEN "key_unsure" ELSE "key"]
        /\ last_play' = IF playing THEN "already_playing" ELSE last_play
    /\ UNCHANGED <<lifecycleVars, envVars, silenceVars, sendVars, ttsVars, playbackVars>>

\* What the play/pause media key does to the music app's playback.
Toggled(s) ==
    IF s = "active" THEN "inactive" ELSE IF s = "inactive" THEN "active" ELSE s

\* play (412): _send_media_key(VK_MEDIA_PLAY_PAUSE) on a worker thread; the
\* key event reaches the music app or is lost (music_player.py:152-164).
PlayKey(p) ==
    /\ playPc[p] \in {"key", "key_unsure"}
    /\ playPc' = [playPc EXCEPT ![p] = "idle"]
    /\ \E sent \in BOOLEAN :
        /\ session' = IF sent THEN Toggled(session) ELSE session
        /\ last_play' = IF ~sent \/ session = "none" THEN "no_effect"
                        ELSE IF session = "active" THEN "paused" ELSE "started"
    /\ UNCHANGED <<volume, original_volume, handlerVars, observerVars>>
    /\ UNCHANGED <<lifecycleVars, envVars, silenceVars, sendVars, playbackVars>>

\* The play tool and the music app, whose playback the user changes too.
NextPlay ==
    \/ EnvSession
    \/ \E p \in Players : PlayBegin(p)
    \/ \E p \in Players : PlayLaunch(p)
    \/ \E p \in Players : PlayCheck(p)
    \/ \E p \in Players : PlayKey(p)

SpecPlay == Init /\ [][NextPlay]_vars

\* C30: play() sends the play/pause key only when the music is not already
\* playing, so a play() call never turns a playing track into a paused one,
\* also when the playback state changes, or another play() runs, between
\* its playback check and its key press: the key press of a play() whose
\* playback check answered from the session's state never takes the session
\* from playing to paused.
C30_PlayNeverPauses ==
    [][\A p \in Players :
        (playPc[p] = "key" /\ playPc'[p] = "idle") =>
            ~(session = "active" /\ session' = "inactive")]_vars

====
